---- MODULE Spec2Model ----
(***************************************************************************)
(* Model of xml-parser-rs (src/src/lib.rs): the section slicer, the tag    *)
(* decomposer and the stack-based tree assembler of `parse`.               *)
(*                                                                         *)
(* A &str is a sequence of one-character strings.  An Option is a record   *)
(* with a field `some`; `unwrap()` of None is the panic outcome.           *)
(***************************************************************************)
EXTENDS Naturals, Sequences, FiniteSets

VARIABLES
    doc,        \* the document the input text was rendered from (history)
    raw_xml,    \* the input text of parse
    sections,   \* raw_xml.split_inclusive('>') collected into a Vec
    idx,        \* position of the for loop in sections (next one to process)
    section_stack,
    result,
    pc          \* "start" | "run" | "done" | "panic" | "hang"

vars == <<doc, raw_xml, sections, idx, section_stack, result, pc>>

----------------------------------------------------------------------------
(* Characters *)
LT == "<"
GT == ">"
SL == "/"
QM == "?"
SP == " "
NL == "\n"
QT == "\""
EQS == "="
BANG == "!"
DASH == "-"
LBR == "["
RBR == "]"

----------------------------------------------------------------------------
(* str primitives of the Rust standard library, as the code uses them *)

None == [some |-> FALSE]
Some(v) == [some |-> TRUE, val |-> v]

Tail_(s, k) == SubSeq(s, k, Len(s))

starts_with(s, p) == Len(s) >= Len(p) /\ SubSeq(s, 1, Len(p)) = p

ends_with(s, p) == Len(s) >= Len(p) /\ SubSeq(s, Len(s) - Len(p) + 1, Len(s)) = p

\* str::find: 1-based position of the first match of p in s, 0 when none
find(s, p) ==
    LET hits == {k \in 1..Len(s) : starts_with(Tail_(s, k), p)}
    IN IF hits = {} THEN 0 ELSE CHOOSE k \in hits : \A j \in hits : k <= j

strip_prefix(s, p) == IF starts_with(s, p) THEN Some(Tail_(s, Len(p) + 1)) ELSE None

strip_suffix(s, p) == IF ends_with(s, p) THEN Some(SubSeq(s, 1, Len(s) - Len(p))) ELSE None

split_once(s, p) ==
    LET k == find(s, p)
    IN IF k = 0 THEN None
       ELSE Some(<<SubSeq(s, 1, k - 1), Tail_(s, k + Len(p))>>)

RECURSIVE split(_, _)
split(s, p) ==
    LET k == find(s, p)
    IN IF k = 0 THEN <<s>>
       ELSE <<SubSeq(s, 1, k - 1)>> \o split(Tail_(s, k + Len(p)), p)

\* str::split_inclusive('>'): cut after every '>', no empty last piece
RECURSIVE split_inclusive(_)
split_inclusive(s) ==
    LET k == find(s, <<GT>>)
    IN IF s = <<>> THEN <<>>
       ELSE IF k = 0 THEN <<s>>
       ELSE <<SubSeq(s, 1, k)>> \o split_inclusive(Tail_(s, k + 1))

\* the closure |x| x == '\n' || x == ' ' under chars().all(..)
all_blank_Mut(s) == \A k \in 1..Len(s) : s[k] = SP
all_blank(s) == \A k \in 1..Len(s) : s[k] = NL \/ s[k] = SP

reverse_Mut(s) == s
RECURSIVE reverse(_)
reverse(s) == IF s = <<>> THEN <<>> ELSE Append(reverse(Tail(s)), Head(s))

----------------------------------------------------------------------------
(* XMLElement and XMLParsingSection *)

Element(name, attributes, contents, children) ==
    [kind |-> "Element", name |-> name, attributes |-> attributes,
     contents |-> contents, children |-> children]
EmptyElement(name, attributes) ==
    [kind |-> "EmptyElement", name |-> name, attributes |-> attributes]
Comment(text) == [kind |-> "Comment", text |-> text]
Cdata(text) == [kind |-> "Cdata", text |-> text]

ElementStart(name, attributes) ==
    [sec |-> "ElementStart", name |-> name, attributes |-> attributes]
ElementStop(name) == [sec |-> "ElementStop", name |-> name]
FinishedElement(element) == [sec |-> "FinishedElement", element |-> element]
EmptyElementSec(element) == [sec |-> "EmptyElement", element |-> element]
CommentSec(element) == [sec |-> "Comment", element |-> element]
CdataSec(element) == [sec |-> "Cdata", element |-> element]
Content(text) == [sec |-> "Content", text |-> text]

\* HashMap<&str, Vec<&str>> as a set of <<key, value>> pairs, one per key
EmptyMap == {}
insert(m, k, v) == {e \in m : e[1] # k} \cup {<<k, v>>}

----------------------------------------------------------------------------
(* Tag decomposer.  Every parse_* yields [ok, ...]; ok = FALSE is a panic. *)

Panic == [ok |-> FALSE]

\* the for loop over the attribute pairs (lines 31-42)
RECURSIVE insert_pairs_Mut(_, _)
insert_pairs_Mut(pairs, attributes) ==
    IF pairs = <<>> THEN [ok |-> TRUE, attributes |-> attributes]
    ELSE LET nv == split_once(Head(pairs), <<EQS, QT>>)
         IN IF ~nv.some THEN Panic
            ELSE insert_pairs_Mut(Tail(pairs),
                                  insert(attributes, nv.val[1], split(nv.val[2], <<SP>>)))
RECURSIVE insert_pairs(_, _)
insert_pairs(pairs, attributes) ==
    IF pairs = <<>> THEN [ok |-> TRUE, attributes |-> attributes]
    ELSE LET nv == split_once(Head(pairs), <<EQS, QT>>)
         IN IF ~nv.some THEN Panic
            ELSE LET stripped == strip_suffix(nv.val[2], <<QT>>)
                     values == IF stripped.some THEN stripped.val ELSE nv.val[2]
                 IN insert_pairs(Tail(pairs),
                                 insert(attributes, nv.val[1], split(values, <<SP>>)))

parse_element_name_and_attributes(raw) ==
    LET so == split_once(raw, <<SP>>)
    IN IF so.some
       THEN LET r == insert_pairs(split(so.val[2], <<QT, SP>>), EmptyMap)
            IN IF r.ok
               THEN [ok |-> TRUE, name |-> so.val[1], attributes |-> r.attributes]
               ELSE Panic
       ELSE [ok |-> TRUE, name |-> raw, attributes |-> EmptyMap]

\* strip_prefix(p).unwrap().strip_suffix(q).unwrap()
strip_both(raw, p, q) ==
    LET a == strip_prefix(raw, p)
    IN IF ~a.some THEN None ELSE strip_suffix(a.val, q)

parse_version(raw) ==
    LET s == strip_both(raw, <<LT, QM>>, <<QM, GT>>)
    IN IF ~s.some THEN Panic
       ELSE LET na == parse_element_name_and_attributes(s.val)
            IN IF ~na.ok THEN Panic
               ELSE [ok |-> TRUE,
                     section |-> EmptyElementSec(EmptyElement(na.name, na.attributes))]

parse_element_start_tag(raw) ==
    LET s == strip_both(raw, <<LT>>, <<GT>>)
    IN IF ~s.some THEN Panic
       ELSE LET na == parse_element_name_and_attributes(s.val)
            IN IF ~na.ok THEN Panic
               ELSE [ok |-> TRUE, section |-> ElementStart(na.name, na.attributes)]

parse_element_stop_tag(raw) ==
    LET s == strip_both(raw, <<LT, SL>>, <<GT>>)
    IN IF ~s.some THEN Panic
       ELSE [ok |-> TRUE, section |-> ElementStop(s.val)]

parse_empty_element_tag(raw) ==
    LET s == strip_both(raw, <<LT>>, <<SL, GT>>)
    IN IF ~s.some THEN Panic
       ELSE LET na == parse_element_name_and_attributes(s.val)
            IN IF ~na.ok THEN Panic
               ELSE [ok |-> TRUE,
                     section |-> EmptyElementSec(EmptyElement(na.name, na.attributes))]

parse_comment(raw) ==
    LET s == strip_both(raw, <<LT, BANG, DASH, DASH, SP>>, <<SP, DASH, DASH, GT>>)
    IN IF ~s.some THEN Panic
       ELSE [ok |-> TRUE, section |-> CommentSec(Comment(s.val))]

parse_cdata(raw) ==
    LET s == strip_both(raw, <<LT, BANG, LBR, "C", "D", "A", "T", "A", LBR>>,
                        <<RBR, RBR, GT>>)
    IN IF ~s.some THEN Panic
       ELSE [ok |-> TRUE, section |-> CdataSec(Cdata(s.val))]

----------------------------------------------------------------------------
(* Tree assembler: the body of the for loop of parse *)

\* lines 112-124: a section that does not start with '<' is leading text,
\* followed by the next tag when it holds a '<'
split_content(section, stack) ==
    IF ~starts_with(section, <<LT>>)
    THEN LET index == find(section, <<LT>>)
         IN IF index # 0
            THEN LET content == SubSeq(section, 1, index - 1)
                 IN [section |-> Tail_(section, index),
                     stack |-> IF ~all_blank(content)
                               THEN Append(stack, Content(content)) ELSE stack]
            ELSE [section |-> section,
                  stack |-> IF ~all_blank(section)
                            THEN Append(stack, Content(section)) ELSE stack]
    ELSE [section |-> section, stack |-> stack]

\* lines 140-173: pop until the start tag named parent_name is found; with
\* the stack exhausted pop() yields None and the loop spins forever
RECURSIVE reduce_DropAbove(_, _, _, _)
reduce_DropAbove(stack, parent_name, contents, children) ==
    IF stack = <<>> THEN [hang |-> TRUE]
    ELSE LET top == stack[Len(stack)]
             rest == SubSeq(stack, 1, Len(stack) - 1)
         IN CASE top.sec = "ElementStart" ->
                   IF top.name = parent_name
                   THEN [hang |-> FALSE,
                         stack |-> Append(rest, FinishedElement(
                             Element(top.name, top.attributes, contents,
                                     reverse(children))))]
                   ELSE reduce_DropAbove(rest, parent_name, <<>>, <<>>)
              [] top.sec = "ElementStop" ->
                   reduce_DropAbove(rest, parent_name, contents, children)
              [] top.sec \in {"FinishedElement", "EmptyElement", "Comment", "Cdata"} ->
                   reduce_DropAbove(rest, parent_name, contents,
                                    Append(children, top.element))
              [] top.sec = "Content" ->
                   reduce_DropAbove(rest, parent_name, Append(contents, top.text),
                                    children)
RECURSIVE reduce_CloseAtBottom(_, _, _, _)
reduce_CloseAtBottom(stack, parent_name, contents, children) ==
    IF stack = <<>>
    THEN [hang |-> FALSE,
          stack |-> <<FinishedElement(
                        Element(parent_name, EmptyMap, contents, reverse(children)))>>]
    ELSE LET top == stack[Len(stack)]
             rest == SubSeq(stack, 1, Len(stack) - 1)
         IN CASE top.sec = "ElementStart" ->
                   IF top.name = parent_name
                   THEN [hang |-> FALSE,
                         stack |-> Append(rest, FinishedElement(
                             Element(top.name, top.attributes, contents,
                                     reverse(children))))]
                   ELSE reduce_CloseAtBottom(rest, parent_name, contents, children)
              [] top.sec = "ElementStop" ->
                   reduce_CloseAtBottom(rest, parent_name, contents, children)
              [] top.sec \in {"FinishedElement", "EmptyElement", "Comment", "Cdata"} ->
                   reduce_CloseAtBottom(rest, parent_name, contents,
                                        Append(children, top.element))
              [] top.sec = "Content" ->
                   reduce_CloseAtBottom(rest, parent_name, Append(contents, top.text),
                                        children)
RECURSIVE reduce(_, _, _, _)
reduce(stack, parent_name, contents, children) ==
    IF stack = <<>> THEN [hang |-> TRUE]
    ELSE LET top == stack[Len(stack)]
             rest == SubSeq(stack, 1, Len(stack) - 1)
         IN CASE top.sec = "ElementStart" ->
                   IF top.name = parent_name
                   THEN [hang |-> FALSE,
                         stack |-> Append(rest, FinishedElement(
                             Element(top.name, top.attributes, contents,
                                     reverse(children))))]
                   ELSE reduce(rest, parent_name, contents, children)
              [] top.sec = "ElementStop" ->
                   reduce(rest, parent_name, contents, children)
              [] top.sec \in {"FinishedElement", "EmptyElement", "Comment", "Cdata"} ->
                   reduce(rest, parent_name, contents, Append(children, top.element))
              [] top.sec = "Content" ->
                   reduce(rest, parent_name, Append(contents, top.text), children)

Go_EmitRoot(stack, res) ==
    IF Len(stack) = 1 /\ stack[1].sec = "FinishedElement"
    THEN [pc |-> "run", stack |-> <<>>, result |-> Append(res, stack[1].element)]
    ELSE [pc |-> "run", stack |-> stack, result |-> res]
Go(stack, res) == [pc |-> "run", stack |-> stack, result |-> res]
Abort(stack, res) == [pc |-> "panic", stack |-> stack, result |-> res]
Spin(res) == [pc |-> "hang", stack |-> <<>>, result |-> res]

route_NoOpenFrame(p, stack, res) ==
    IF ~p.ok THEN Abort(stack, res)
    ELSE IF \A k \in 1..Len(stack) : stack[k].sec # "ElementStart"
    THEN Go(stack, Append(res, p.section.element))
    ELSE Go(Append(stack, p.section), res)
\* the if is_empty { result.push } else { section_stack.push } routing
route(p, stack, res) ==
    IF ~p.ok THEN Abort(stack, res)
    ELSE IF stack = <<>> THEN Go(stack, Append(res, p.section.element))
    ELSE Go(Append(stack, p.section), res)

\* lines 125-203: the if / else-if chain over the tag section
classify(section, stack, res) ==
    IF ends_with(section, <<SL, GT>>)
    THEN route(parse_empty_element_tag(section), stack, res)
    ELSE IF starts_with(section, <<LT, SL>>)
    THEN LET p == parse_element_stop_tag(section)
         IN IF ~p.ok THEN Abort(stack, res)
            ELSE LET r == reduce(stack, p.section.name, <<>>, <<>>)
                 IN IF r.hang THEN Spin(res) ELSE Go(r.stack, res)
    ELSE IF starts_with(section, <<LT, QM>>)
    THEN LET p == parse_version(section)
         IN IF ~p.ok THEN Abort(stack, res)
            ELSE Go(stack, Append(res, p.section.element))
    ELSE IF starts_with(section, <<LT>>)
    THEN LET p == parse_element_start_tag(section)
         IN IF ~p.ok THEN Abort(stack, res) ELSE Go(Append(stack, p.section), res)
    ELSE IF starts_with(section, <<LT, BANG, DASH, DASH>>)
    THEN route(parse_comment(section), stack, res)
    ELSE IF starts_with(section, <<LT, BANG, LBR, "C", "D", "A", "T", "A", LBR>>)
    THEN route(parse_cdata(section), stack, res)
    ELSE Go(stack, res)

\* one iteration of the for loop
step(section, stack, res) ==
    LET c == split_content(section, stack)
    IN classify(c.section, c.stack, res)

\* lines 205-212: the finished elements left on the stack, bottom to top
RECURSIVE drain_AllNodes(_)
drain_AllNodes(stack) ==
    IF stack = <<>> THEN <<>>
    ELSE IF Head(stack).sec \in {"FinishedElement", "EmptyElement"}
         THEN <<Head(stack).element>> \o drain_AllNodes(Tail(stack))
         ELSE drain_AllNodes(Tail(stack))
RECURSIVE drain(_)
drain(stack) ==
    IF stack = <<>> THEN <<>>
    ELSE IF Head(stack).sec = "FinishedElement"
         THEN <<Head(stack).element>> \o drain(Tail(stack))
         ELSE drain(Tail(stack))

----------------------------------------------------------------------------
(* Documents the input text is rendered from.  A document is a sequence of *)
(* items: tags, text runs, and whole elements with their nested items.     *)

Tok(kind, text) == [kind |-> kind, text |-> text, attrs |-> <<>>]
TokA(kind, name, attrs) == [kind |-> kind, text |-> name, attrs |-> attrs]
Attr(k, v) == [k |-> k, v |-> v]
Elem(name, kids) == [kind |-> "elem", text |-> name, kids |-> kids]

\* name k1="v1" k2="v2": one space before every attribute, none after the last
RECURSIVE Body(_, _)
Body(name, attrs) ==
    IF attrs = <<>> THEN name
    ELSE Body(name \o <<SP>> \o Head(attrs).k \o <<EQS, QT>> \o Head(attrs).v \o <<QT>>,
              Tail(attrs))

\* the same body with the closing quote of the last value left out
BodyOpen(name, attrs) == SubSeq(Body(name, attrs), 1, Len(Body(name, attrs)) - 1)

RECURSIVE Render(_)
RECURSIVE RenderDoc(_)
Render(t) ==
    CASE t.kind = "start"   -> <<LT>> \o Body(t.text, t.attrs) \o <<GT>>
      [] t.kind = "end"     -> <<LT, SL>> \o t.text \o <<GT>>
      [] t.kind = "empty"   -> <<LT>> \o Body(t.text, t.attrs) \o <<SL, GT>>
      [] t.kind = "decl"    -> <<LT, QM>> \o Body(t.text, t.attrs) \o <<QM, GT>>
      [] t.kind = "comment" -> <<LT, BANG, DASH, DASH, SP>> \o t.text \o <<SP, DASH, DASH, GT>>
      [] t.kind = "cdata"   -> <<LT, BANG, LBR, "C", "D", "A", "T", "A", LBR>> \o t.text
                                 \o <<RBR, RBR, GT>>
      [] t.kind = "text"    -> t.text
      [] t.kind = "broken"  -> <<LT>> \o t.text
      [] t.kind = "startq"  -> <<LT>> \o BodyOpen(t.text, t.attrs) \o <<GT>>
      [] t.kind = "emptyq"  -> <<LT>> \o BodyOpen(t.text, t.attrs) \o <<SL, GT>>
      [] t.kind = "declq"   -> <<LT, QM>> \o BodyOpen(t.text, t.attrs) \o <<QM, GT>>
      [] t.kind = "pi"      -> <<LT, QM>> \o t.text \o <<GT>>
      [] t.kind = "elem"    -> <<LT>> \o t.text \o <<GT>> \o RenderDoc(t.kids)
                                 \o <<LT, SL>> \o t.text \o <<GT>>
RenderDoc(d) == IF d = <<>> THEN <<>> ELSE Render(Head(d)) \o RenderDoc(Tail(d))

\* Spec: every sequence of at most MaxTokens tokens
MaxTokens == 3

XmlDecl == TokA("decl", <<"x", "m", "l">>, <<Attr(<<"v">>, <<"1">>)>>)

Tokens ==
    {Tok("start", <<"a">>), Tok("start", <<"b">>),
     Tok("end", <<"a">>), Tok("end", <<"b">>),
     Tok("empty", <<"c">>),
     XmlDecl,
     Tok("comment", <<"n">>),
     Tok("cdata", <<LT, "x", GT>>),
     Tok("text", <<"x">>), Tok("text", <<"y", GT, "z">>),
     Tok("text", <<SP, NL>>), Tok("text", <<"w", SL, GT>>),
     Tok("broken", <<"a">>)}

Docs == UNION {[1..n -> Tokens] : n \in 0..MaxTokens}

\* SpecTree: every balanced document of at most MaxSize tags and text runs,
\* no two text runs adjacent
MaxSize == 6

Leaves == {Tok("empty", <<"c">>), Tok("text", <<"x">>), Tok("text", <<"y">>)}
Names == {<<"a">>, <<"b">>}

RECURSIVE Forest(_)
RECURSIVE Item(_)
Item(n) ==
    IF n = 1 THEN Leaves
    ELSE {Elem(name, f) : name \in Names, f \in Forest(n - 2)}
Forest(n) ==
    IF n = 0 THEN {<<>>}
    ELSE UNION {UNION {{<<it>> \o f :
                          f \in {g \in Forest(n - k) :
                                   g = <<>> \/ ~(it.kind = "text" /\ Head(g).kind = "text")}}
                       : it \in Item(k)}
                : k \in 1..n}

TreeDocs == UNION {Forest(n) : n \in 0..MaxSize}

\* SpecAttr: one tag with at most two attributes, the values of at most
\* MaxValueLen characters
MaxValueLen == 3

RECURSIVE Strings(_)
Strings(n) ==
    IF n = 0 THEN {<<>>}
    ELSE Strings(n - 1) \cup
         {Append(w, c) : w \in {u \in Strings(n - 1) : Len(u) = n - 1},
                         c \in {"x", "y", SP}}

AttrLists ==
    {<<>>}
    \cup {<<Attr(<<k>>, v)>> : k \in {"k", "m"}, v \in Strings(MaxValueLen)}
    \cup {<<Attr(<<"k">>, v), Attr(<<"m">>, w)>> :
             v \in Strings(MaxValueLen), w \in Strings(MaxValueLen)}

AttrDocs ==
    {<<TokA(kind, <<"a">>, al)>> : kind \in {"start", "empty", "decl"}, al \in AttrLists}

\* SpecLex: one lexically malformed tag: the last value lacks its closing
\* quote (kinds startq, emptyq, declq), or a section opens with "<?" and
\* does not close with "?>" (kind pi)
LexDocs ==
    {<<TokA(kind, <<"a">>, al)>> : kind \in {"startq", "emptyq", "declq"},
                                 al \in AttrLists \ {<<>>}}
    \cup {<<Tok("pi", t)>> : t \in {<<"x">>, <<"x", SL>>}}

\* SpecFlat: every sequence of at most MaxFlat start tags, end tags,
\* self-closing tags and text runs, balanced or not
MaxFlat == 4

FlatTokens ==
    {Tok("start", <<"a">>), Tok("start", <<"b">>),
     Tok("end", <<"a">>), Tok("end", <<"b">>),
     Tok("empty", <<"c">>),
     Tok("text", <<"x">>), Tok("text", <<"y">>)}

FlatDocs == UNION {[1..n -> FlatTokens] : n \in 0..MaxFlat}

----------------------------------------------------------------------------
(* parse as a state machine *)

Start(d) ==
    /\ doc = d
    /\ raw_xml = RenderDoc(d)
    /\ sections = <<>>
    /\ idx = 0
    /\ section_stack = <<>>
    /\ result = <<>>
    /\ pc = "start"

Init == \E d \in Docs : Start(d)

\* line 111: the input is sliced once, before the first iteration
Slice ==
    /\ pc = "start"
    /\ sections' = split_inclusive(raw_xml)
    /\ idx' = 1
    /\ pc' = "run"
    /\ UNCHANGED <<doc, raw_xml, section_stack, result>>

\* lines 111-204: one section is consumed
Section ==
    /\ pc = "run"
    /\ idx <= Len(sections)
    /\ LET o == step(sections[idx], section_stack, result)
       IN /\ pc' = o.pc
          /\ section_stack' = o.stack
          /\ result' = o.result
          /\ idx' = IF o.pc = "run" THEN idx + 1 ELSE idx
    /\ UNCHANGED <<doc, raw_xml, sections>>

\* lines 205-213: the stack is drained into the result, which is returned
Finish ==
    /\ pc = "run"
    /\ idx > Len(sections)
    /\ result' = result \o drain(section_stack)
    /\ section_stack' = <<>>
    /\ pc' = "done"
    /\ UNCHANGED <<doc, raw_xml, sections, idx>>

Next == Slice \/ Section \/ Finish

Spec == Init /\ [][Next]_vars

InitTree == \E d \in TreeDocs : Start(d)
SpecTree == InitTree /\ [][Next]_vars

InitAttr == \E d \in AttrDocs : Start(d)
SpecAttr == InitAttr /\ [][Next]_vars

InitLex == \E d \in LexDocs : Start(d)
SpecLex == InitLex /\ [][Next]_vars

InitFlat == \E d \in FlatDocs : Start(d)
SpecFlat == InitFlat /\ [][Next]_vars

----------------------------------------------------------------------------
(* Vocabulary of the properties *)

Settled == pc \in {"done", "panic", "hang"}
Processing == pc = "run" /\ idx <= Len(sections)

\* the tag part of the section under the loop and the stack it is classified on
CurTag == split_content(sections[idx], section_stack).section
CurStack == split_content(sections[idx], section_stack).stack

IsEndTag(s) == starts_with(s, <<LT, SL>>) /\ ends_with(s, <<GT>>) /\ ~ends_with(s, <<SL, GT>>)
EndName(s) == SubSeq(s, 3, Len(s) - 1)
HasOpenFrame(stack, n) ==
    \E k \in 1..Len(stack) : stack[k].sec = "ElementStart" /\ stack[k].name = n

IsBlankText(s) == \A k \in 1..Len(s) : s[k] \in {SP, NL}

\* the node a top-level item of a document stands for: no attributes but
\* those of the declaration, the text runs as contents, the rest as children
RECURSIVE NodeOf(_)
RECURSIVE NodesOf(_)
RECURSIVE TextsOf(_)
AttrMapOf(attrs) == {<<attrs[k].k, <<attrs[k].v>>>> : k \in 1..Len(attrs)}
NodeOf(t) ==
    CASE t.kind = "elem" -> Element(t.text, {}, TextsOf(t.kids), NodesOf(t.kids))
      [] t.kind \in {"empty", "decl"} -> EmptyElement(t.text, AttrMapOf(t.attrs))
      [] t.kind = "comment" -> Comment(t.text)
      [] t.kind = "cdata" -> Cdata(t.text)
NodesOf(d) ==
    IF d = <<>> THEN <<>>
    ELSE IF Head(d).kind = "text" THEN NodesOf(Tail(d))
    ELSE <<NodeOf(Head(d))>> \o NodesOf(Tail(d))
TextsOf(d) ==
    IF d = <<>> THEN <<>>
    ELSE IF Head(d).kind = "text" THEN <<Head(d).text>> \o TextsOf(Tail(d))
    ELSE TextsOf(Tail(d))

----------------------------------------------------------------------------
\* C1: an end tag </N> met while no open frame named N is on the stack (the
\* empty stack included) is tolerated: the parse does not abort or stall on
\* it and goes on with the next section.
C1_UnmatchedEndTagTolerated ==
    [][(Processing /\ IsEndTag(CurTag) /\ ~HasOpenFrame(CurStack, EndName(CurTag)))
         => (pc' = "run" /\ idx' = idx + 1)]_vars

\* a document of tokens read as top-level items: a start tag directly
\* followed by its end tag is one (empty) element
RECURSIVE Grouped(_)
Grouped(d) ==
    IF d = <<>> THEN <<>>
    ELSE IF /\ Len(d) >= 2
            /\ Head(d).kind = "start" /\ d[2].kind = "end" /\ d[2].text = Head(d).text
         THEN <<Elem(Head(d).text, <<>>)>> \o Grouped(Tail(Tail(d)))
         ELSE <<Head(d)>> \o Grouped(Tail(d))

IsTopLevelDoc(d) ==
    \A k \in 1..Len(Grouped(d)) :
        Grouped(d)[k].kind \in {"decl", "comment", "empty", "elem"}

\* C2: a document that is a sequence of top-level items (declaration,
\* comments, self-closing tags, balanced elements) parses to one node per
\* item, in the order of the items.
C2_TopLevelItemsInOrder ==
    (IsTopLevelDoc(doc) /\ Settled)
        => (pc = "done" /\ result = NodesOf(Grouped(doc)))

IsElementNode(n) == n.kind = "Element"
IsElemItem(t) == t.kind = "elem"

\* a node reduced to its names and text runs, at every depth
RECURSIVE ContentsView(_)
ContentsView(n) ==
    IF n.kind = "Element"
    THEN [name |-> n.name, contents |-> n.contents,
          sub |-> [k \in 1..Len(n.children) |-> ContentsView(n.children[k])]]
    ELSE [name |-> "-"]

\* a node reduced to its names and nesting, at every depth
RECURSIVE ChildrenView(_)
ChildrenView(n) ==
    IF n.kind = "Element"
    THEN [name |-> n.name,
          children |-> [k \in 1..Len(n.children) |-> ChildrenView(n.children[k])]]
    ELSE [name |-> n.name]

ResultElements == SelectSeq(result, IsElementNode)
DocElements == NodesOf(SelectSeq(doc, IsElemItem))

\* C3: the contents of every Element, at every depth, are the direct text
\* runs of that element in document order.
C3_ContentsInDocumentOrder ==
    pc = "done" =>
        [k \in 1..Len(ResultElements) |-> ContentsView(ResultElements[k])]
          = [k \in 1..Len(DocElements) |-> ContentsView(DocElements[k])]

\* C4: <![CDATA[T]]> yields Cdata(T) with T verbatim, appended to the output
\* at top level and a child of the enclosing element otherwise.
C4_CdataVerbatim ==
    /\ (Len(doc) = 1 /\ doc[1].kind = "cdata" /\ Settled)
          => (pc = "done" /\ result = <<Cdata(doc[1].text)>>)
    /\ (/\ Len(doc) = 3 /\ doc[2].kind = "cdata"
        /\ doc[1].kind = "start" /\ doc[3].kind = "end" /\ doc[3].text = doc[1].text
        /\ Settled)
          => (pc = "done"
              /\ result = <<Element(doc[1].text, {}, <<>>, <<Cdata(doc[2].text)>>)>>)

IsCommentTag(s) ==
    /\ Len(s) >= 9
    /\ starts_with(s, <<LT, BANG, DASH, DASH, SP>>)
    /\ ends_with(s, <<SP, DASH, DASH, GT>>)
CommentText(s) == SubSeq(s, 6, Len(s) - 4)

\* C5: a tag section <!-- T --> yields Comment(T): appended to the output on
\* an empty stack, pushed as a pending child otherwise, and never an abort.
C5_CommentClassified ==
    [][(Processing /\ IsCommentTag(CurTag))
         => /\ pc' = "run"
            /\ IF CurStack = <<>>
               THEN /\ result' = Append(result, Comment(CommentText(CurTag)))
                    /\ section_stack' = <<>>
               ELSE /\ section_stack' =
                          Append(CurStack, CommentSec(Comment(CommentText(CurTag))))
                    /\ result' = result]_vars

IsTagKind(k) == k \in {"start", "end", "empty", "decl", "comment", "cdata", "broken"}

\* a tag of the document lacks its '>', and only tags follow it
MissingClose(d) ==
    \E k \in 1..Len(d) :
        /\ d[k].kind = "broken"
        /\ \A j \in (k + 1)..Len(d) : IsTagKind(d[j].kind)

\* C6: a document with a tag missing its closing '>' never parses to a tree.
C6_MissingCloseIsFatal == MissingClose(doc) => pc # "done"

\* C7: <a>text</a>, the text not blank and without '<', parses to one
\* Element named a with contents = [text] and no children.
C7_SingleElementText ==
    (/\ Len(doc) = 3
     /\ doc[1].kind = "start" /\ doc[2].kind = "text" /\ doc[3].kind = "end"
     /\ doc[3].text = doc[1].text
     /\ ~IsBlankText(doc[2].text)
     /\ Settled)
        => (pc = "done" /\ result = <<Element(doc[1].text, {}, <<doc[2].text>>, <<>>)>>)

\* C8: in a balanced document the children of every Element, at every
\* depth, are the nodes directly nested in it, in document order.
C8_ChildrenInDocumentOrder ==
    pc = "done" =>
        [k \in 1..Len(ResultElements) |-> ChildrenView(ResultElements[k])]
          = [k \in 1..Len(DocElements) |-> ChildrenView(DocElements[k])]

\* an element with two children, the first an element with a child of its own
C8_Witness ==
    /\ pc = "done"
    /\ \E k \in 1..Len(result) :
          /\ result[k].kind = "Element"
          /\ Len(result[k].children) = 2
          /\ result[k].children[1].kind = "Element"
          /\ Len(result[k].children[1].children) = 1

\* the text runs held by a node, at every depth
RECURSIVE NodeTexts(_)
NodeTexts(n) ==
    IF n.kind = "Element"
    THEN {n.contents[k] : k \in 1..Len(n.contents)}
         \cup UNION {NodeTexts(n.children[k]) : k \in 1..Len(n.children)}
    ELSE {}

EntryTexts(e) ==
    IF e.sec = "Content" THEN {e.text}
    ELSE IF e.sec \in {"FinishedElement", "EmptyElement", "Comment", "Cdata"}
    THEN NodeTexts(e.element)
    ELSE {}

MaterialisedTexts ==
    UNION {EntryTexts(section_stack[k]) : k \in 1..Len(section_stack)}
    \cup UNION {NodeTexts(result[k]) : k \in 1..Len(result)}

\* C9: no content entry on the stack and no contents entry of any Element
\* is empty or made of spaces and newlines only.
C9_NoBlankContent == \A t \in MaterialisedTexts : ~IsBlankText(t)

\* <a>, a run of spaces and newlines, </a> was parsed: the run left no entry
C9_Witness ==
    /\ pc = "done"
    /\ Len(doc) = 3
    /\ doc[1].kind = "start" /\ doc[3].kind = "end" /\ doc[3].text = doc[1].text
    /\ doc[2].kind = "text" /\ IsBlankText(doc[2].text)
    /\ result = <<Element(doc[1].text, {}, <<>>, <<>>)>>

\* a value text cut at every single space
RECURSIVE Words(_)
Words(v) ==
    IF \A k \in 1..Len(v) : v[k] # SP THEN <<v>>
    ELSE LET k == CHOOSE i \in 1..Len(v) : v[i] = SP /\ \A j \in 1..(i - 1) : v[j] # SP
         IN <<SubSeq(v, 1, k - 1)>> \o Words(SubSeq(v, k + 1, Len(v)))

WordsMap(attrs) == {<<attrs[k].k, Words(attrs[k].v)>> : k \in 1..Len(attrs)}

IsAttrTag(t) == t.kind \in {"start", "empty", "decl"}

\* the tag t was decomposed into its name and one key per attribute
DecomposedAs(t) ==
    /\ pc = "run"
    /\ IF t.kind = "start"
       THEN section_stack = <<ElementStart(t.text, WordsMap(t.attrs))>> /\ result = <<>>
       ELSE result = <<EmptyElement(t.text, WordsMap(t.attrs))>> /\ section_stack = <<>>

\* the single section of a one-tag document has been processed
TagProcessed ==
    /\ Len(doc) = 1 /\ IsAttrTag(doc[1])
    /\ pc = "panic" \/ (pc = "run" /\ idx = 2)

\* C10 as claimed: a tag name k1="v1" k2="v2" with double-quoted values and
\* single spaces between the attributes decomposes into its name and a map
\* with one key per attribute, each value cut at its single spaces.
C10_AttributesDecomposed == TagProcessed => DecomposedAs(doc[1])

StartsWithSpace(t) ==
    \E k \in 1..Len(t.attrs) : t.attrs[k].v # <<>> /\ Head(t.attrs[k].v) = SP

\* C10 amended: the same, for tags none of whose values begins with a space.
C10_AttributesDecomposedNoLeadingSpace ==
    (TagProcessed /\ ~StartsWithSpace(doc[1])) => DecomposedAs(doc[1])

\* <a k="x y" m="..."> decomposed: two keys, k mapped to [x, y]
C10_Witness ==
    /\ TagProcessed /\ pc = "run"
    /\ doc[1].kind = "start" /\ Len(doc[1].attrs) = 2
    /\ doc[1].attrs[1].v = <<"x", SP, "y">>
    /\ Len(section_stack) = 1
    /\ <<<<"k">>, <<<<"x">>, <<"y">>>>>> \in section_stack[1].attributes
    /\ Cardinality(section_stack[1].attributes) = 2

IsMalformedTag(t) == t.kind \in {"startq", "emptyq", "declq", "pi"}

\* C11: a tag whose last attribute value lacks its closing quote, and a
\* section that opens with "<?" and does not close with "?>", abort the
\* parse: it never returns.
C11_LexicalMalformationFatal ==
    (Len(doc) = 1 /\ IsMalformedTag(doc[1])) => pc # "done"

IsDeclTag(s) == starts_with(s, <<LT, QM>>) /\ ends_with(s, <<QM, GT>>)
IsSelfClosingTag(s) == starts_with(s, <<LT>>) /\ ends_with(s, <<SL, GT>>)

\* the step appended one EmptyElement to the output and left the stack empty
EmptyElementAppended ==
    /\ section_stack' = <<>>
    /\ Len(result') = Len(result) + 1
    /\ SubSeq(result', 1, Len(result)) = result
    /\ result'[Len(result')].kind = "EmptyElement"

\* the step pushed one pending EmptyElement and left the output alone
EmptyElementPushed ==
    /\ result' = result
    /\ Len(section_stack') = Len(CurStack) + 1
    /\ SubSeq(section_stack', 1, Len(CurStack)) = CurStack
    /\ section_stack'[Len(section_stack')].sec = "EmptyElement"
    /\ section_stack'[Len(section_stack')].element.kind = "EmptyElement"

\* C12: a declaration and a self-closing tag are routed alike: appended to
\* the output on an empty stack, pushed as a pending child (the output
\* unchanged) on a non-empty one.
C12_EmptyElementRouting ==
    [][(Processing /\ (IsDeclTag(CurTag) \/ IsSelfClosingTag(CurTag)) /\ pc' = "run")
         => IF CurStack = <<>> THEN EmptyElementAppended ELSE EmptyElementPushed]_vars

\* position of the nearest (topmost) open frame named n
NearestFrame(stack, n) ==
    CHOOSE k \in 1..Len(stack) :
        /\ stack[k].sec = "ElementStart" /\ stack[k].name = n
        /\ \A j \in (k + 1)..Len(stack) :
              ~(stack[j].sec = "ElementStart" /\ stack[j].name = n)

\* the nodes, and the text runs, among stack entries, in stack order
RECURSIVE NodesAmong(_)
NodesAmong(es) ==
    IF es = <<>> THEN <<>>
    ELSE IF Head(es).sec \in {"FinishedElement", "EmptyElement", "Comment", "Cdata"}
         THEN <<Head(es).element>> \o NodesAmong(Tail(es))
         ELSE NodesAmong(Tail(es))
RECURSIVE TextsAmong(_)
TextsAmong(es) ==
    IF es = <<>> THEN <<>>
    ELSE IF Head(es).sec = "Content"
         THEN <<Head(es).text>> \o TextsAmong(Tail(es))
         ELSE TextsAmong(Tail(es))

Occurrences(s, x) == Cardinality({k \in 1..Len(s) : s[k] = x})
SameEntries(s, t) ==
    /\ Len(s) = Len(t)
    /\ \A k \in 1..Len(s) : Occurrences(s, s[k]) = Occurrences(t, s[k])

\* C13: an end tag </N> with an open frame named N on the stack replaces
\* the entries from the nearest such frame upward by one finished Element
\* for N: frames of other names above it are dropped, every node above it
\* is a child and every text run above it a contents entry of the Element,
\* and the entries below the frame and the output are unchanged.
C13_EndTagReduction ==
    [][(Processing /\ IsEndTag(CurTag) /\ HasOpenFrame(CurStack, EndName(CurTag)))
         => LET k == NearestFrame(CurStack, EndName(CurTag))
                above == SubSeq(CurStack, k + 1, Len(CurStack))
                e == section_stack'[k].element
            IN /\ pc' = "run"
               /\ result' = result
               /\ Len(section_stack') = k
               /\ SubSeq(section_stack', 1, k - 1) = SubSeq(CurStack, 1, k - 1)
               /\ section_stack'[k].sec = "FinishedElement"
               /\ e.kind = "Element"
               /\ e.name = EndName(CurTag)
               /\ e.attributes = CurStack[k].attributes
               /\ e.children = NodesAmong(above)
               /\ SameEntries(e.contents, TextsAmong(above))]_vars

\* <a><b><c/></a> reduced: the frame b is gone, c is a child of a
C13_Witness ==
    /\ pc = "run"
    /\ doc = <<Tok("start", <<"a">>), Tok("start", <<"b">>),
               Tok("empty", <<"c">>), Tok("end", <<"a">>)>>
    /\ section_stack =
          <<FinishedElement(Element(<<"a">>, {}, <<>>,
                                    <<EmptyElement(<<"c">>, {})>>))>>

\* the section under the loop is text only: no '<' in it, and not blank
IsTextOnlySection(s) ==
    /\ \A k \in 1..Len(s) : s[k] # LT
    /\ ~IsBlankText(s)

\* C14: a section without '<' that is not blank has one effect only: one
\* content entry holding the whole section is pushed; the output is left
\* alone and the parse does not abort, whatever the text ends with.
C14_TextOnlySectionPushed ==
    [][(Processing /\ IsTextOnlySection(sections[idx]))
         => /\ pc' = "run"
            /\ section_stack' = Append(section_stack, Content(sections[idx]))
            /\ result' = result]_vars

\* C15: while sections are consumed the output holds no Element (a
\* completed Element waits on the stack); Elements arrive with the drain
\* only, so in a result no Element comes before an EmptyElement.
C15_ElementsOnlyAtDrain ==
    /\ pc # "done" => \A k \in 1..Len(result) : result[k].kind # "Element"
    /\ pc = "done" =>
          \A i \in 1..Len(result) : \A j \in (i + 1)..Len(result) :
              ~(result[i].kind = "Element" /\ result[j].kind = "EmptyElement")

\* <a></a> followed by a declaration: the declaration comes out first
C15_Witness ==
    /\ pc = "done"
    /\ doc = <<Tok("start", <<"a">>), Tok("end", <<"a">>), XmlDecl>>
    /\ Len(result) = 2
    /\ result[1].kind = "EmptyElement"
    /\ result[2] = Element(<<"a">>, {}, <<>>, <<>>)

IsFinishedEntry(e) == e.sec = "FinishedElement"
FinishedAmong(stack) ==
    LET f == SelectSeq(stack, IsFinishedEntry)
    IN [k \in 1..Len(f) |-> f[k].element]

RECURSIVE LeadingEmpties(_)
LeadingEmpties(d) ==
    IF d = <<>> \/ Head(d).kind # "empty" THEN 0
    ELSE 1 + LeadingEmpties(Tail(d))

\* the first token that is pushed is a text run, one that occurs nowhere
\* else in the document and has no text run next to it
OrphanAt(d) == LeadingEmpties(d) + 1
OrphanText(d) ==
    /\ Len(d) >= OrphanAt(d)
    /\ d[OrphanAt(d)].kind = "text" /\ ~IsBlankText(d[OrphanAt(d)].text)
    /\ \A k \in (OrphanAt(d) + 1)..Len(d) :
          d[k].kind = "text" => (k # OrphanAt(d) + 1 /\ d[k].text # d[OrphanAt(d)].text)

ResultTexts == UNION {NodeTexts(result[k]) : k \in 1..Len(result)}

\* C17: a text run pushed on the empty stack is in the contents of no node
\* of the result of a parse that returns, whatever follows it.
C17_OrphanTextStaysOrphan ==
    (pc = "done" /\ OrphanText(doc)) => doc[OrphanAt(doc)].text \notin ResultTexts

\* x<a>y</a>: the element holds y, and x is in no node
C17_Witness ==
    /\ pc = "done"
    /\ doc = <<Tok("text", <<"x">>), Tok("start", <<"a">>),
               Tok("text", <<"y">>), Tok("end", <<"a">>)>>
    /\ result = <<Element(<<"a">>, {}, <<<<"y">>>>, <<>>)>>

IsEmptyNode(n) == n.kind = "EmptyElement"

\* C18: once non-empty, the stack is non-empty after every later section of
\* a parse that goes on, and a self-closing tag met from then on is not
\* appended to the output; the top-level EmptyElements of a result are the
\* self-closing tags before the first start tag or text run.
C18_StackStaysNonEmpty ==
    /\ [][(Processing /\ section_stack # <<>> /\ pc' = "run")
            => /\ section_stack' # <<>>
               /\ IsSelfClosingTag(CurTag) => result' = result]_vars
    /\ [](pc = "done" => Len(SelectSeq(result, IsEmptyNode)) = LeadingEmpties(doc))

\* <a></a><c/>: the finished a keeps the stack non-empty, and c is dropped
C18_Witness ==
    /\ pc = "done"
    /\ doc = <<Tok("start", <<"a">>), Tok("end", <<"a">>), Tok("empty", <<"c">>)>>
    /\ result = <<Element(<<"a">>, {}, <<>>, <<>>)>>

====
